---------------------------- MODULE Spec2Model ----------------------------
(***************************************************************************)
(* Sky Sprint (src/app/page.tsx): the game effect's closure state, the     *)
(* animation-frame scheduler it drives, its input handlers and the         *)
(* best-score item of localStorage.                                        *)
(*                                                                         *)
(* Numbers are exact fixed-point integers:                                 *)
(*   positions (x, y, width, height)  in 1/POS world units                 *)
(*   player.vy                        in 1/VEL world units per second      *)
(*   delta, lastTime                  in milliseconds                      *)
(*   spawnTimer                       in microseconds                      *)
(*   Math.random()                    in thousandths (0 .. 999)            *)
(***************************************************************************)
EXTENDS Integers, Sequences, FiniteSets

VARIABLES
    statusRef,    \* statusRef.current
    scoreRef,     \* scoreRef.current
    bestRef,      \* bestRef.current
    storage,      \* localStorage item "sky-sprint-best": NoItem or a string
    animationId,  \* handle of the last requested loop frame, or NullId
    lastTime,     \* lastTime, relative to the timestamp of the latest frame
    obstacles,    \* sequence of [x, width, height, passed, id]
    spawnTimer,
    speed,
    player,       \* [x, y, vy, onGround]
    rafQueue,     \* the scheduler's pending callbacks: sequence of [id, cb]
    spaceHeld,    \* the Space key is physically down
    spawned,      \* history: obstacles pushed in the current run
    passedIds,    \* history: ids of the current run's obstacles seen passed
    hist          \* history of the last step: [op, statuses, ticks, scored]

vars == <<statusRef, scoreRef, bestRef, storage, animationId, lastTime,
          obstacles, spawnTimer, speed, player, rafQueue, spaceHeld,
          spawned, passedIds, hist>>

----------------------------------------------------------------------------
(* Program constants *)

WORLD_WIDTH == 360
WORLD_HEIGHT == 640
GROUND_HEIGHT == 72
PLAYER_SIZE == 42
GRAVITY == 1100
JUMP_VELOCITY == -420

\* fixed-point scales (see the header)
POS == 10 * 1000
VEL == 2 * 5
RND == 10 * 100

PLAYER_X == 74
INITIAL_SPEED == 190
SPEED_STEP == 3
MAX_SPEED == 360
INITIAL_SPAWN_TIMER == 1
MAX_DELTA_MS == 35
HITBOX_MARGIN == 6
OFFSCREEN_MARGIN == 20
MIN_WIDTH == 44
WIDTH_RANGE == 32
MIN_HEIGHT == 60
HEIGHT_RANGE == 90
BASE_INTERVAL_MS == 800
JITTER_MS == 400
BOOST_BASE_MILLI == 1200
BOOST_PER_SCORE_MILLI == 15
BOOST_MAX_MILLI == 1700

groundY == (WORLD_HEIGHT - GROUND_HEIGHT) * POS
restY == groundY - PLAYER_SIZE * POS

NullId == 0
\* the value Canon gives a handle that is no longer pending
StaleId == NullId - 1
NoItem == <<"null">>

Min(a, b) == IF a <= b THEN a ELSE b
Max(a, b) == IF a >= b THEN a ELSE b

----------------------------------------------------------------------------
(* The localStorage string conversions *)

Digits == <<"0", "1", "2", "3", "4", "5", "6", "7", "8", "9">>

IsDigit(c) == \E i \in 1..10 : Digits[i] = c

DigitValue(c) == (CHOOSE i \in 1..10 : Digits[i] = c) - 1

RECURSIVE NatToString(_)
\* `${value}` of a non-negative integer
NatToString(n) ==
    IF n < 10 THEN <<Digits[n + 1]>>
    ELSE Append(NatToString(n \div 10), Digits[(n % 10) + 1])

\* the template literal `${value}`
NumberToString(n) ==
    IF n < 0 THEN <<"-">> \o NatToString(-n) ELSE NatToString(n)

RECURSIVE LeadingDigits(_, _, _)
\* value of the longest digit prefix of str from position i; -1 when empty
LeadingDigits(str, i, acc) ==
    IF i > Len(str) \/ ~IsDigit(str[i]) THEN acc
    ELSE LeadingDigits(str, i + 1,
                       (IF acc < 0 THEN 0 ELSE acc) * 10 + DigitValue(str[i]))

\* Number.parseInt(str, 10): optional sign, then the leading digits; the
\* result is [isNaN, value]
ParseInt(str) ==
    LET neg == Len(str) >= 1 /\ str[1] = "-"
        from == IF Len(str) >= 1 /\ str[1] \in {"-", "+"} THEN 2 ELSE 1
        mag == LeadingDigits(str, from, -1)
    IN  [isNaN |-> mag < 0,
         value |-> IF mag < 0 THEN 0 ELSE IF neg THEN -mag ELSE mag]

\* window.localStorage.getItem("sky-sprint-best") ?? "0"
GetItemOrZero(item) == IF item = NoItem THEN <<"0">> ELSE item


\* the effect at lines 58-65: the best score read from storage at mount
LoadBest(item) ==
    LET saved == ParseInt(GetItemOrZero(item))
    IN  IF ~saved.isNaN /\ saved.value > 0 THEN saved.value ELSE 0

----------------------------------------------------------------------------
(* The closure state as one record, and the functions of the game effect   *)
(* as operators from record to record.  nextId is the scheduler's next     *)
(* handle.                                                                 *)

State ==
    [statusRef |-> statusRef, scoreRef |-> scoreRef, bestRef |-> bestRef,
     storage |-> storage, animationId |-> animationId, lastTime |-> lastTime,
     obstacles |-> obstacles, spawnTimer |-> spawnTimer, speed |-> speed,
     player |-> player, rafQueue |-> rafQueue, spawned |-> spawned,
     passedIds |-> passedIds, nextId |-> Len(rafQueue) + 1,
     hist |-> [op |-> "none", statuses |-> <<>>, ticks |-> 0,
               deltas |-> <<>>]]

SeqFilter(seq, Keep(_)) ==
    LET F[i \in 0..Len(seq)] ==
            IF i = 0 THEN <<>>
            ELSE IF Keep(seq[i]) THEN Append(F[i - 1], seq[i]) ELSE F[i - 1]
    IN  F[Len(seq)]

\* window.requestAnimationFrame(cb): the handle is s.nextId
requestAnimationFrame(s, cb) ==
    [s EXCEPT !.rafQueue = Append(@, [id |-> s.nextId, cb |-> cb]),
              !.nextId = @ + 1]

\* window.cancelAnimationFrame(id)
cancelAnimationFrame(s, id) ==
    [s EXCEPT !.rafQueue = SeqFilter(@, LAMBDA e : e.id # id)]

setStatusSafe(s, next) ==
    [s EXCEPT !.statusRef = next,
              !.hist.statuses = Append(@, next)]

setScoreSafe(s, value) == [s EXCEPT !.scoreRef = value]

\* updateBest without the write to localStorage (line 110 left out)
updateBest_NoPersist(s, value) ==
    IF value <= s.bestRef THEN s ELSE [s EXCEPT !.bestRef = value]

updateBest(s, value) ==
    IF value <= s.bestRef THEN s
    ELSE [s EXCEPT !.bestRef = value, !.storage = NumberToString(value)]

endGame(s) ==
    IF s.statusRef # "running" THEN s
    ELSE LET s1 == setStatusSafe(s, "over")
             s2 == IF s1.animationId # NullId
                   THEN [cancelAnimationFrame(s1, s1.animationId)
                            EXCEPT !.animationId = NullId]
                   ELSE s1
         IN  updateBest(s2, s2.scoreRef)

\* lines 242-251 without line 248
PhysicsStep_NeverGrounded(p, delta) ==
    LET vy1 == p.vy + (GRAVITY * delta * VEL) \div 1000
        y1 == p.y + (vy1 * delta * POS) \div (VEL * 1000)
    IN  IF y1 >= restY
        THEN [p EXCEPT !.y = restY, !.vy = 0, !.onGround = FALSE]
        ELSE [p EXCEPT !.y = y1, !.vy = vy1, !.onGround = FALSE]

\* lines 242-251 without line 246
PhysicsStep_NoSnap(p, delta) ==
    LET vy1 == p.vy + (GRAVITY * delta * VEL) \div 1000
        y1 == p.y + (vy1 * delta * POS) \div (VEL * 1000)
    IN  IF y1 >= restY
        THEN [p EXCEPT !.y = y1, !.vy = 0, !.onGround = TRUE]
        ELSE [p EXCEPT !.y = y1, !.vy = vy1, !.onGround = FALSE]

\* lines 242-251: gravity, integration and the ground clamp
PhysicsStep(p, delta) ==
    LET vy1 == p.vy + (GRAVITY * delta * VEL) \div 1000
        y1 == p.y + (vy1 * delta * POS) \div (VEL * 1000)
    IN  IF y1 >= restY
        THEN [p EXCEPT !.y = restY, !.vy = 0, !.onGround = TRUE]
        ELSE [p EXCEPT !.y = y1, !.vy = vy1, !.onGround = FALSE]

difficultyBoost(score) ==
    Min(BOOST_BASE_MILLI + score * BOOST_PER_SCORE_MILLI, BOOST_MAX_MILLI)

\* line 265 without Math.min
NextSpeed_NoCap(v) == v + SPEED_STEP

\* line 265
NextSpeed(v) == Min(MAX_SPEED, v + SPEED_STEP)

\* lines 253-266: rnd = [w, h, t], the three Math.random() results
Spawner(s, delta, rnd) ==
    LET timer == s.spawnTimer - delta * 1000
    IN  IF timer <= 0
        THEN LET width == MIN_WIDTH * POS + (rnd.w * WIDTH_RANGE * POS) \div RND
                 height == MIN_HEIGHT * POS
                           + (rnd.h * HEIGHT_RANGE * POS) \div RND
             IN  [s EXCEPT
                    !.obstacles = Append(@, [x |-> WORLD_WIDTH * POS + width,
                                             width |-> width,
                                             height |-> height,
                                             passed |-> FALSE,
                                             id |-> s.spawned + 1]),
                    !.spawned = @ + 1,
                    !.spawnTimer =
                        (BASE_INTERVAL_MS * 1000 * 1000)
                            \div difficultyBoost(s.scoreRef)
                        + (rnd.t * JITTER_MS * 1000) \div RND,
                    !.speed = NextSpeed(@)]
        ELSE [s EXCEPT !.spawnTimer = timer]

\* line 270 without the !obstacle.passed test
JustPassed_Again(o, p) == o.x + o.width < p.x

\* line 270 with the obstacle's left edge for its right edge
JustPassed_LeftEdge(o, p) == ~o.passed /\ o.x < p.x

\* line 270
JustPassed(o, p) == ~o.passed /\ o.x + o.width < p.x

RECURSIVE MoveAndScore(_, _, _)
\* lines 268-276: the forEach, from obstacle i on
MoveAndScore(s, delta, i) ==
    IF i > Len(s.obstacles) THEN s
    ELSE LET o == [s.obstacles[i] EXCEPT
                      !.x = @ - (s.speed * delta * POS) \div 1000]
             s1 == [s EXCEPT !.obstacles[i] = o]
             s2 == IF JustPassed(o, s.player)
                   THEN LET newScore == s1.scoreRef + 1
                        IN  updateBest(
                              setScoreSafe(
                                [s1 EXCEPT !.obstacles[i].passed = TRUE],
                                newScore),
                              newScore)
                   ELSE s1
         IN  MoveAndScore(s2, delta, i + 1)

\* line 278
\* line 278 with the world's width for the margin
OnScreen_WorldWidth(o) == o.x + o.width > -(WORLD_WIDTH * POS)

OnScreen(o) == o.x + o.width > -(OFFSCREEN_MARGIN * POS)

\* withinX with "or" for the "and" of line 281
Overlaps_EitherEdge(p, o) ==
    LET withinX == p.x + (PLAYER_SIZE - HITBOX_MARGIN) * POS > o.x
                   \/ p.x + HITBOX_MARGIN * POS < o.x + o.width
        withinY == p.y + PLAYER_SIZE * POS > groundY - o.height
    IN  withinX /\ withinY

\* the test on the whole player box
Overlaps_NoMargin(p, o) ==
    LET withinX == p.x + PLAYER_SIZE * POS > o.x /\ p.x < o.x + o.width
        withinY == p.y + PLAYER_SIZE * POS > groundY - o.height
    IN  withinX /\ withinY

\* lines 281-283
Overlaps(p, o) ==
    LET withinX == p.x + (PLAYER_SIZE - HITBOX_MARGIN) * POS > o.x
                   /\ p.x + HITBOX_MARGIN * POS < o.x + o.width
        withinY == p.y + PLAYER_SIZE * POS > groundY - o.height
    IN  withinX /\ withinY

hit(s) == \E i \in 1..Len(s.obstacles) : Overlaps(s.player, s.obstacles[i])

\* updateGame with the collision test (lines 280-288) ahead of the scoring
\* (lines 268-276)
updateGame_HitFirst(s, delta, rnd) ==
    LET s1 == [s EXCEPT !.player = PhysicsStep(@, delta),
                        !.hist.ticks = @ + 1,
                        !.hist.deltas = Append(@, delta)]
        s2 == Spawner(s1, delta, rnd)
        s3 == MoveAndScore(s2, delta, 1)
        moved == [s2 EXCEPT
                    !.obstacles = SeqFilter(
                        [i \in 1..Len(s3.obstacles) |->
                            [s3.obstacles[i] EXCEPT
                                !.passed = s2.obstacles[i].passed]],
                        OnScreen)]
        s4 == [s3 EXCEPT
                 !.passedIds = @ \cup {s3.obstacles[i].id :
                                  i \in {j \in 1..Len(s3.obstacles) :
                                           s3.obstacles[j].passed}},
                 !.obstacles = SeqFilter(@, OnScreen)]
    IN  IF hit(moved) THEN endGame(moved) ELSE s4

updateGame(s, delta, rnd) ==
    LET s1 == [s EXCEPT !.player = PhysicsStep(@, delta),
                        !.hist.ticks = @ + 1,
                        !.hist.deltas = Append(@, delta)]
        s2 == Spawner(s1, delta, rnd)
        s3 == MoveAndScore(s2, delta, 1)
        s4 == [s3 EXCEPT
                 !.passedIds = @ \cup {s3.obstacles[i].id :
                                  i \in {j \in 1..Len(s3.obstacles) :
                                           s3.obstacles[j].passed}},
                 !.obstacles = SeqFilter(@, OnScreen)]
    IN  IF hit(s4) THEN endGame(s4) ELSE s4

\* loop without the test of line 294
loop_AnyStatus(s, time, rnd) ==
    LET delta == Min(MAX_DELTA_MS, time - s.lastTime)
        s1 == [s EXCEPT !.lastTime = time]
        s2 == updateGame(s1, delta, rnd)
        s3 == requestAnimationFrame(s2, "loop")
    IN  [s3 EXCEPT !.animationId = s2.nextId]

\* lines 291-299; time and lastTime in ms
loop(s, time, rnd) ==
    LET delta == Min(MAX_DELTA_MS, time - s.lastTime)
        s1 == [s EXCEPT !.lastTime = time]
    IN  IF s1.statusRef = "running"
        THEN LET s2 == updateGame(s1, delta, rnd)
                 s3 == requestAnimationFrame(s2, "loop")
             IN  [s3 EXCEPT !.animationId = s2.nextId]
        ELSE s1

\* prepareGame without setScoreSafe(0) (line 310 left out)
prepareGame_KeepScore(s) ==
    setStatusSafe(
        [s EXCEPT
           !.obstacles = <<>>,
           !.spawnTimer = INITIAL_SPAWN_TIMER * 1000 * 1000,
           !.speed = INITIAL_SPEED,
           !.player = [x |-> PLAYER_X * POS, y |-> restY, vy |-> 0,
                       onGround |-> TRUE],
           !.spawned = 0,
           !.passedIds = {}],
        "ready")

\* prepareGame without line 304
prepareGame_KeepSpeed(s) ==
    LET s1 == [s EXCEPT
                 !.obstacles = <<>>,
                 !.spawnTimer = INITIAL_SPAWN_TIMER * 1000 * 1000,
                 !.player = [x |-> PLAYER_X * POS, y |-> restY, vy |-> 0,
                             onGround |-> TRUE],
                 !.spawned = 0,
                 !.passedIds = {}]
    IN  setStatusSafe(setScoreSafe(s1, 0), "ready")

prepareGame(s) ==
    LET s1 == [s EXCEPT
                 !.obstacles = <<>>,
                 !.spawnTimer = INITIAL_SPAWN_TIMER * 1000 * 1000,
                 !.speed = INITIAL_SPEED,
                 !.player = [x |-> PLAYER_X * POS, y |-> restY, vy |-> 0,
                             onGround |-> TRUE],
                 !.spawned = 0,
                 !.passedIds = {}]
    IN  setStatusSafe(setScoreSafe(s1, 0), "ready")

\* now = performance.now()
startGame(s, now) ==
    IF s.statusRef = "running" THEN s
    ELSE LET s1 == setStatusSafe([s EXCEPT !.lastTime = now], "running")
             s2 == requestAnimationFrame(s1, "loop")
         IN  [s2 EXCEPT !.animationId = s1.nextId]

\* jump without the onGround test (line 325 left out)
jump_NoGroundCheck(s) ==
    IF s.statusRef # "running" THEN s
    ELSE [s EXCEPT !.player.vy = JUMP_VELOCITY * VEL,
                   !.player.onGround = FALSE]

jump(s) ==
    IF s.statusRef # "running" THEN s
    ELSE IF ~s.player.onGround THEN s
    ELSE [s EXCEPT !.player.vy = JUMP_VELOCITY * VEL,
                   !.player.onGround = FALSE]

\* handlePointerDown restarting without prepareGame (line 338 left out)
handlePointerDown_NoReset(s, now) ==
    IF s.statusRef = "ready"
    THEN requestAnimationFrame(startGame(s, now), "jump")
    ELSE IF s.statusRef = "over"
    THEN startGame(s, now)
    ELSE jump(s)

\* handlePointerDown jumping in the handler instead of in a frame callback
handlePointerDown_JumpNow(s, now) ==
    IF s.statusRef = "ready"
    THEN requestAnimationFrame(jump(startGame(s, now)), "jump")
    ELSE IF s.statusRef = "over"
    THEN startGame(prepareGame(s), now)
    ELSE jump(s)

\* lines 330-343
handlePointerDown(s, now) ==
    IF s.statusRef = "ready"
    THEN requestAnimationFrame(startGame(s, now), "jump")
    ELSE IF s.statusRef = "over"
    THEN startGame(prepareGame(s), now)
    ELSE jump(s)

handleKeyDown(s, code, now) ==
    IF code # "Space" THEN s ELSE handlePointerDown(s, now)

\* lines 374-388: the overlay button, through gameApiRef
handlePrimaryAction(s, now) ==
    IF s.statusRef = "ready"
    THEN requestAnimationFrame(startGame(s, now), "jump")
    ELSE IF s.statusRef = "over"
    THEN startGame(prepareGame(s), now)
    ELSE jump(s)

----------------------------------------------------------------------------
(* The animation-frame scheduler of the host *)

Handles(queue) == [i \in 1..Len(queue) |-> queue[i].id]

Pending(queue, id) == \E i \in 1..Len(queue) : queue[i].id = id

Callback(queue, id) ==
    queue[CHOOSE i \in 1..Len(queue) : queue[i].id = id].cb

RECURSIVE RunCallbacks(_, _, _, _, _)
\* "run the animation frame callbacks": the handles pending when the frame
\* starts, in order; a handle cancelled meanwhile is skipped, a callback
\* requested meanwhile waits for the next frame
RunCallbacks(s, handles, i, time, rnd) ==
    IF i > Len(handles) THEN s
    ELSE IF ~Pending(s.rafQueue, handles[i])
    THEN RunCallbacks(s, handles, i + 1, time, rnd)
    ELSE LET cb == Callback(s.rafQueue, handles[i])
             s1 == cancelAnimationFrame(s, handles[i])
             s2 == IF cb = "loop" THEN loop(s1, time, rnd) ELSE jump(s1)
         IN  RunCallbacks(s2, handles, i + 1, time, rnd)

\* Handles are only compared for equality: the pending ones are renumbered
\* 1..n in order, and a handle that is no longer pending becomes StaleId.
Canon(s) ==
    LET q == s.rafQueue
        renumbered == [i \in 1..Len(q) |-> [id |-> i, cb |-> q[i].cb]]
        aid == IF s.animationId = NullId THEN NullId
               ELSE IF Pending(q, s.animationId)
               THEN CHOOSE i \in 1..Len(q) : q[i].id = s.animationId
               ELSE StaleId
    IN  [s EXCEPT !.rafQueue = renumbered, !.animationId = aid]

\* The frame's timestamp becomes the origin of lastTime.  An age beyond the
\* clamp of line 292 gives the same delta as the clamp itself.
Rebase(s, time) ==
    [s EXCEPT !.lastTime = Max(@ - time, -MAX_DELTA_MS)]

Set(s, op) ==
    /\ statusRef' = s.statusRef
    /\ scoreRef' = s.scoreRef
    /\ bestRef' = s.bestRef
    /\ storage' = s.storage
    /\ animationId' = s.animationId
    /\ lastTime' = s.lastTime
    /\ obstacles' = s.obstacles
    /\ spawnTimer' = s.spawnTimer
    /\ speed' = s.speed
    /\ player' = s.player
    /\ rafQueue' = s.rafQueue
    /\ spawned' = s.spawned
    /\ passedIds' = s.passedIds
    /\ hist' = [s.hist EXCEPT !.op = op]

----------------------------------------------------------------------------
(* The environment: bounded sets of inputs *)

MaxScore == 57

\* ms from the latest frame's timestamp to the next one's
FrameGaps == {40}

\* performance.now() in a handler, in ms after the latest frame's timestamp.
\* An input handled inside a frame reads a clock later than the timestamp
\* that frame's callbacks receive.
NowOffsets == {0, 45}

\* the Math.random() triples of one spawn: width, height, timer jitter
RandomDraws == {[w |-> 0, h |-> 0, t |-> 999], [w |-> 999, h |-> 999, t |-> 0]}

KeyCodes == {"Space", "Enter"}

InitialStorage == {NoItem, <<"x">>, <<"2", "x">>}

----------------------------------------------------------------------------
(* The state after the component has mounted (both effects have run) *)

Mounted(item) ==
    [statusRef |-> "ready", scoreRef |-> 0, bestRef |-> LoadBest(item),
     storage |-> item, animationId |-> NullId, lastTime |-> 0,
     obstacles |-> <<>>, spawnTimer |-> INITIAL_SPAWN_TIMER * 1000 * 1000,
     speed |-> INITIAL_SPEED,
     player |-> [x |-> PLAYER_X * POS, y |-> restY, vy |-> 0,
                 onGround |-> TRUE],
     rafQueue |-> <<>>, spawned |-> 0, passedIds |-> {}, nextId |-> 1,
     hist |-> [op |-> "mount", statuses |-> <<"ready">>, ticks |-> 0,
               deltas |-> <<>>]]

Init ==
    \E item \in InitialStorage :
        /\ statusRef = Mounted(item).statusRef
        /\ scoreRef = Mounted(item).scoreRef
        /\ bestRef = Mounted(item).bestRef
        /\ storage = Mounted(item).storage
        /\ animationId = Mounted(item).animationId
        /\ lastTime = Mounted(item).lastTime
        /\ obstacles = Mounted(item).obstacles
        /\ spawnTimer = Mounted(item).spawnTimer
        /\ speed = Mounted(item).speed
        /\ player = Mounted(item).player
        /\ rafQueue = Mounted(item).rafQueue
        /\ spawned = Mounted(item).spawned
        /\ passedIds = Mounted(item).passedIds
        /\ hist = Mounted(item).hist
        /\ spaceHeld = FALSE

----------------------------------------------------------------------------
(* Actions *)

\* pointerdown on the canvas
PointerDown(now) ==
    /\ Set(Canon(handlePointerDown(State, now)), "input")
    /\ UNCHANGED spaceHeld

\* keydown of a key that was up
KeyDown(code, now) ==
    /\ code = "Space" => ~spaceHeld
    /\ Set(Canon(handleKeyDown(State, code, now)),
           IF code = "Space" THEN "input" ELSE "otherkey")
    /\ spaceHeld' = (spaceHeld \/ code = "Space")

\* the keydown events the host repeats while Space stays down
KeyRepeat(now) ==
    /\ spaceHeld
    /\ Set(Canon(handleKeyDown(State, "Space", now)), "input")
    /\ UNCHANGED spaceHeld

KeyUp ==
    /\ spaceHeld
    /\ spaceHeld' = FALSE
    /\ Set(State, "keyup")

\* click on the overlay button, rendered while status is not running
Click(now) ==
    /\ statusRef # "running"
    /\ Set(Canon(handlePrimaryAction(State, now)), "input")
    /\ UNCHANGED spaceHeld

\* one animation frame
Frame(gap, rnd) ==
    /\ rafQueue # <<>>
    /\ scoreRef < MaxScore
    /\ Set(Canon(Rebase(RunCallbacks(State, Handles(rafQueue), 1, gap, rnd),
                        gap)),
           "frame")
    /\ UNCHANGED spaceHeld

\* the page is loaded again: only localStorage survives
Reload ==
    /\ hist.op # "mount"
    /\ Set(Mounted(storage), "mount")
    /\ spaceHeld' = FALSE

Step(gaps, nows, draws) ==
    \/ \E now \in nows : PointerDown(now)
    \/ \E code \in KeyCodes, now \in nows : KeyDown(code, now)
    \/ \E now \in nows : KeyRepeat(now)
    \/ KeyUp
    \/ \E now \in nows : Click(now)
    \/ \E gap \in gaps, rnd \in draws : Frame(gap, rnd)
    \/ Reload

Next == Step(FrameGaps, NowOffsets, RandomDraws)

\* Any inputs at any time, on a display of 25 frames per second.
Spec == Init /\ [][Next]_vars

----------------------------------------------------------------------------
(* A long run.  At 25 frames per second no obstacle can be cleared: the    *)
(* player is above the lowest obstacle (60 units) for fewer frames than    *)
(* the narrowest one (44 units) spends under the hitbox, so under Spec the *)
(* score stays 0.  SpecLong is the environment of a 200 Hz display, the    *)
(* smallest obstacles and a player who presses when the next obstacle is   *)
(* about 0.2 s away: until the speed cap is reached the press comes, by    *)
(* pointer, at the first frame at which the obstacle is within PressLead;  *)
(* afterwards it comes by any input at any frame of the window             *)
(* PressWindow, or not at all.                                             *)

FineGaps == {5}

FineNows == {0}

SmallestDraws == {[w |-> 0, h |-> 0, t |-> 999]}

PressLead(v) == IF v < 200 THEN 195 ELSE 200

\* ms before contact between which the late presses come
PressWindow == [late |-> 185, early |-> 200]

\* the distance covered in ms milliseconds at the current world speed
Reach(ms) == (speed * ms * POS) \div 1000

Unpassed == {i \in 1..Len(obstacles) : ~obstacles[i].passed}

\* the distance from the hitbox's right edge to the next obstacle
Gap ==
    LET i == CHOOSE j \in Unpassed : \A k \in Unpassed : j <= k
    IN  obstacles[i].x - (player.x + (PLAYER_SIZE - HITBOX_MARGIN) * POS)

PressDue ==
    player.onGround /\ Unpassed # {} /\ Gap <= Reach(PressLead(speed))

InWindow ==
    Unpassed # {} /\ Gap <= Reach(PressWindow.early)
    /\ Gap > Reach(PressWindow.late)

Scripted == statusRef = "running" /\ speed < MAX_SPEED

\* a press is a pointerdown, a Space keydown or a click
PressAllowed ==
    IF Scripted THEN PressDue ELSE statusRef = "running" => InWindow

FrameAllowed == Scripted => ~PressDue

NextLong ==
    \/ \E now \in FineNows : PressAllowed /\ PointerDown(now)
    \/ \E code \in KeyCodes, now \in FineNows :
          /\ ~Scripted
          /\ code = "Space" => PressAllowed
          /\ KeyDown(code, now)
    \/ \E now \in FineNows : ~Scripted /\ PressAllowed /\ KeyRepeat(now)
    \/ ~Scripted /\ KeyUp
    \/ \E now \in FineNows : PressAllowed /\ Click(now)
    \/ \E gap \in FineGaps, rnd \in SmallestDraws :
          FrameAllowed /\ Frame(gap, rnd)
    \/ ~Scripted /\ Reload

InitLong == Init /\ storage = NoItem

SpecLong == InitLong /\ [][NextLong]_vars

----------------------------------------------------------------------------
(* Constructed scenes.  updateGame is a function of the simulation state,  *)
(* and some of its cases are states of a run that a player reaches after   *)
(* a long game or not at all.  SpecScene starts a running game from a      *)
(* constructed obstacle list and world speed, with the player at rest, and *)
(* runs frames of 5 ms, with a pointer press at any moment, for as long as *)
(* an obstacle of the scene is ahead of the player.                        *)

\* the sizes lines 255-256 give for a Math.random() of r thousandths
SpawnWidth(r) == MIN_WIDTH * POS + (r * WIDTH_RANGE * POS) \div RND

SpawnHeight(r) == MIN_HEIGHT * POS + (r * HEIGHT_RANGE * POS) \div RND

Obstacle(x, width, height, id) ==
    [x |-> x, width |-> width, height |-> height, passed |-> FALSE, id |-> id]

\* one obstacle of width 50 and height 80 at x = 0, and one at x = 40
Behind == <<Obstacle(0, 50 * POS, 80 * POS, 0)>>

Under == <<Obstacle(40 * POS, 50 * POS, 80 * POS, 0)>>

\* the obstacle lines 257-262 push for a Math.random() of r thousandths
Spawned(r) ==
    <<Obstacle(WORLD_WIDTH * POS + SpawnWidth(r), SpawnWidth(r),
               SpawnHeight(r), 0)>>

\* a wide obstacle whose right edge is about to leave player.x behind, and
\* a narrow one about to reach the hitbox
Pair ==
    <<Obstacle(PLAYER_X * POS + 4680 - SpawnWidth(999), SpawnWidth(999),
               SpawnHeight(0), 0),
      Obstacle((PLAYER_X + PLAYER_SIZE - HITBOX_MARGIN) * POS + 5000,
               SpawnWidth(0), SpawnHeight(0), -1)>>

Scenes == {Behind, Under, Spawned(0), Spawned(999), Pair}

SceneSpeeds == {INITIAL_SPEED, MAX_SPEED}

\* the closure state of a run that has these obstacles ahead: status
\* running, the loop pending, the player at rest
Scene(obs, v) ==
    [Mounted(NoItem) EXCEPT
        !.statusRef = "running", !.obstacles = obs, !.speed = v,
        !.animationId = 1, !.rafQueue = <<[id |-> 1, cb |-> "loop"]>>,
        !.hist = [op |-> "scene", statuses |-> <<"running">>, ticks |-> 0,
                  deltas |-> <<>>]]

\* the closure variables hold the fields of m
Begins(m) ==
    /\ statusRef = m.statusRef
    /\ scoreRef = m.scoreRef
    /\ bestRef = m.bestRef
    /\ storage = m.storage
    /\ animationId = m.animationId
    /\ lastTime = m.lastTime
    /\ obstacles = m.obstacles
    /\ spawnTimer = m.spawnTimer
    /\ speed = m.speed
    /\ player = m.player
    /\ rafQueue = m.rafQueue
    /\ spawned = m.spawned
    /\ passedIds = m.passedIds
    /\ hist = m.hist
    /\ spaceHeld = FALSE

InitScene == \E obs \in Scenes, v \in SceneSpeeds : Begins(Scene(obs, v))

\* the obstacles of the scene have ids 0, -1, ...; the spawner's are 1, 2, ...
SceneAhead(s) ==
    /\ s.statusRef = "running"
    /\ \E i \in 1..Len(s.obstacles) :
          s.obstacles[i].id <= 0 /\ ~s.obstacles[i].passed

NextScene ==
    \/ \E now \in FineNows : statusRef = "running" /\ PointerDown(now)
    \/ \E gap \in FineGaps, rnd \in SmallestDraws :
          SceneAhead(State) /\ Frame(gap, rnd)

SpecScene == InitScene /\ [][NextScene]_vars

----------------------------------------------------------------------------
(* The flight of the player.  Lines 242-251 are a function of the player   *)
(* and delta alone.  SpecFlight starts from a running game without         *)
(* obstacles and applies that function for deltas of 5, 16 and 35 ms in    *)
(* any order, with a pointer press at any moment.  While status is running *)
(* every run of loop requests the next frame (line 297), so ticks keep     *)
(* coming: the specification is weakly fair to them.                       *)

FlightDeltas == {5, 16, MAX_DELTA_MS}

\* lines 242-251 of one tick
Tick(delta) ==
    /\ statusRef = "running"
    /\ player' = PhysicsStep(player, delta)
    /\ hist' = [op |-> IF ~player.onGround /\ player'.onGround
                       THEN "landing" ELSE "tick",
                statuses |-> <<>>, ticks |-> 1, deltas |-> <<delta>>]
    /\ UNCHANGED <<statusRef, scoreRef, bestRef, storage, animationId,
                   lastTime, obstacles, spawnTimer, speed, rafQueue,
                   spaceHeld, spawned, passedIds>>

Ticks == \E delta \in FlightDeltas : Tick(delta)

InitFlight == Begins(Scene(<<>>, INITIAL_SPEED))

NextFlight ==
    \/ \E now \in FineNows : PointerDown(now)
    \/ Ticks

SpecFlight == InitFlight /\ [][NextFlight]_vars /\ WF_vars(Ticks)

----------------------------------------------------------------------------
(* Properties *)

\* everything but the input bookkeeping (spaceHeld) and the histories
sim == <<statusRef, scoreRef, bestRef, storage, animationId, lastTime,
         obstacles, spawnTimer, speed, player, rafQueue>>

LoopsPending == Cardinality({i \in 1..Len(rafQueue) : rafQueue[i].cb = "loop"})

JumpPending == \E i \in 1..Len(rafQueue) : rafQueue[i].cb = "jump"

AtRest == [x |-> PLAYER_X * POS, y |-> restY, vy |-> 0, onGround |-> TRUE]

StatusChanges ==
    {<<"ready", "running">>, <<"running", "over">>, <<"over", "ready">>}

ChainOK(seq) == \A i \in 1..(Len(seq) - 1) : <<seq[i], seq[i + 1]>> \in StatusChanges

\* C1: every assignment to status made by a gesture or a frame, taken in
\* order from the status before the step, is ready -> running,
\* running -> over or over -> ready; the status after the step is the last
\* one assigned.
C1_StatusTransitions ==
    [][hist'.op # "mount" =>
          /\ ChainOK(<<statusRef>> \o hist'.statuses)
          /\ statusRef' = (<<statusRef>> \o hist'.statuses)[Len(hist'.statuses) + 1]
      ]_vars

\* C1 witness: a restart gesture has taken status from over through ready
\* to running
C1_Restarted == hist.op = "input" /\ hist.statuses = <<"ready", "running">>

\* C2 (as claimed): while status is over no loop callback is pending
C2_NoLoopPendingWhenOver == statusRef = "over" => LoopsPending = 0

\* C3 (as claimed): at most one loop callback is pending and a frame runs
\* updateGame at most once
C3_OneLoopPerFrame == LoopsPending <= 1 /\ hist.ticks <= 1

\* C4: jump() sets vy to the jump velocity and grounded to false when status
\* is running and the player is grounded, and otherwise returns the state
\* unchanged; an input handled while running changes nothing but that.
C4_JumpOnlyWhenGrounded ==
    /\ [](jump(State) =
            IF statusRef = "running" /\ player.onGround
            THEN [State EXCEPT !.player.vy = JUMP_VELOCITY * VEL,
                               !.player.onGround = FALSE]
            ELSE State)
    /\ [][(hist'.op = "input" /\ statusRef = "running") =>
            IF player.onGround
            THEN /\ player' = [player EXCEPT !.vy = JUMP_VELOCITY * VEL,
                                             !.onGround = FALSE]
                 /\ UNCHANGED <<statusRef, scoreRef, bestRef, storage,
                                animationId, lastTime, obstacles, spawnTimer,
                                speed, rafQueue>>
            ELSE UNCHANGED sim
         ]_vars

\* C4 witness: an input was handled while the player was airborne and left
\* the velocity alone
C4_IgnoredWhileAirborne ==
    /\ hist.op = "input"
    /\ statusRef = "running"
    /\ ~player.onGround
    /\ player.vy # JUMP_VELOCITY * VEL

\* C5 (as claimed): when the gesture that starts the run from ready has been
\* handled, the player has the jump velocity
C5_JumpsOnTheGesture ==
    (hist.op = "input" /\ hist.statuses = <<"running">>) =>
        (statusRef = "running" /\ player.vy = JUMP_VELOCITY * VEL
         /\ ~player.onGround)

\* C5 (amended): the gesture handled in ready sets status to running and
\* leaves the player at rest, with the loop and then the jump pending as
\* frame callbacks; the next frame runs one tick and then applies the jump
\* if the player is still grounded.
C5_StartDefersJump ==
    [][/\ (hist'.op = "input" /\ statusRef = "ready") =>
            /\ statusRef' = "running"
            /\ player = AtRest /\ player' = player
            /\ rafQueue' = <<[id |-> 1, cb |-> "loop"], [id |-> 2, cb |-> "jump"]>>
            /\ hist'.ticks = 0
       /\ (hist'.op = "frame" /\ JumpPending /\ player.onGround) =>
            /\ hist'.ticks = 1
            /\ statusRef' = "running"
            /\ player' = [player EXCEPT !.vy = JUMP_VELOCITY * VEL,
                                        !.onGround = FALSE]
            /\ ~JumpPending'
      ]_vars

\* C5 witness: a frame has run its tick and then applied the deferred jump
C5_DeferredJumpApplied ==
    /\ hist.op = "frame"
    /\ hist.ticks = 1
    /\ player = [AtRest EXCEPT !.vy = JUMP_VELOCITY * VEL, !.onGround = FALSE]

\* C6: a gesture handled in over leaves status running, score 0, no
\* obstacles, speed 190, spawn timer 1 s, the player at rest, and best and
\* its stored value as they were.
C6_RestartResets ==
    [][(hist'.op = "input" /\ statusRef = "over") =>
          /\ statusRef' = "running"
          /\ scoreRef' = 0
          /\ obstacles' = <<>>
          /\ speed' = INITIAL_SPEED
          /\ spawnTimer' = INITIAL_SPAWN_TIMER * 1000 * 1000
          /\ player' = AtRest
          /\ bestRef' = bestRef
          /\ storage' = storage
      ]_vars

\* C6 witness: a run that scored has ended and been restarted
C6_RestartedAfterScoring ==
    /\ hist.op = "input"
    /\ hist.statuses = <<"ready", "running">>
    /\ bestRef >= 1
    /\ scoreRef = 0

\* C7 (as claimed): a keydown repeated while Space is held dispatches no
\* action: it changes nothing of the game
C7_RepeatIgnored ==
    [][(\E now \in NowOffsets : KeyRepeat(now)) => UNCHANGED sim]_vars

\* C8: the score is the number of obstacles of the run that have been
\* marked passed, a passed obstacle stays passed, and a frame adds to the
\* score exactly the number of obstacles it marks.
C8_ScoreOncePerObstacle ==
    /\ [](scoreRef = Cardinality(passedIds))
    /\ [][hist'.op = "frame" =>
            /\ \A i \in 1..Len(obstacles), j \in 1..Len(obstacles') :
                  (obstacles[i].id = obstacles'[j].id /\ obstacles[i].passed)
                      => obstacles'[j].passed
            /\ scoreRef' - scoreRef = Cardinality(passedIds' \ passedIds)
            /\ passedIds \subseteq passedIds'
         ]_vars

\* C8 witness: two obstacles have been scored and a passed one is still on
\* the list, ticked again
C8_PassedStillListed ==
    /\ scoreRef >= 2
    /\ hist.op = "frame"
    /\ \E i \in 1..Len(obstacles) :
          obstacles[i].passed /\ obstacles[i].x + obstacles[i].width < player.x - POS

\* C9: no step, a reload included, lowers best; a step that raises best
\* stores its decimal string; updateBest of a value not above best returns
\* the state unchanged.
C9_BestMonotone ==
    /\ [][/\ bestRef' >= bestRef
          /\ bestRef' > bestRef => storage' = NumberToString(bestRef')
         ]_vars
    /\ [](\A v \in 0..bestRef : updateBest(State, v) = State)

\* C9 witness: the page was loaded again after a best score was stored
C9_ReloadedWithBest == hist.op = "mount" /\ bestRef >= 1

\* C10: speed stays within 190 .. 360, and a step lowers it only to 190 and
\* only by a reset (prepareGame, or the page loading again).
C10_SpeedCapped ==
    /\ [](INITIAL_SPEED <= speed /\ speed <= MAX_SPEED)
    /\ [][speed' < speed =>
            /\ speed' = INITIAL_SPEED
            /\ hist'.op = "mount" \/ \E i \in 1..Len(hist'.statuses) :
                                        hist'.statuses[i] = "ready"
         ]_vars

\* C10 witness: an obstacle was spawned with the speed already at the cap
C10_SpawnAtCap ==
    /\ speed = MAX_SPEED
    /\ spawned * SPEED_STEP > MAX_SPEED - INITIAL_SPEED + SPEED_STEP

\* The boxes of the collision rule, as rectangles of the world: the player's
\* box shrunk by the margin on its left and right, and the obstacle's box
\* standing on the ground.
HitBox(p) ==
    [left |-> p.x + HITBOX_MARGIN * POS,
     right |-> p.x + (PLAYER_SIZE - HITBOX_MARGIN) * POS,
     top |-> p.y, bottom |-> p.y + PLAYER_SIZE * POS]

Box(o) ==
    [left |-> o.x, right |-> o.x + o.width,
     top |-> groundY - o.height, bottom |-> groundY]

Intersect(a, b) ==
    /\ a.left < b.right /\ b.left < a.right
    /\ a.top < b.bottom /\ b.top < a.bottom

Collides(p, obs) == \E i \in 1..Len(obs) : Intersect(HitBox(p), Box(obs[i]))

\* C11: after a frame that ran a tick, status is over if some obstacle's box
\* intersects the player's hitbox and running if none does; status goes from
\* over to running only in a step that first resets (sets status to ready).
C11_OverIffOverlap ==
    [][/\ (hist'.op = "frame" /\ hist'.ticks >= 1) =>
            /\ statusRef = "running"
            /\ statusRef' = IF Collides(player', obstacles') THEN "over"
                                                             ELSE "running"
       /\ (statusRef = "over" /\ statusRef' = "running") =>
            hist'.statuses = <<"ready", "running">>
      ]_vars

\* C11 witness: a tick has ended the run with the player in the air
C11_HitInTheAir ==
    /\ hist.op = "frame"
    /\ hist.ticks >= 1
    /\ statusRef = "over"
    /\ player.y < restY
    /\ Collides(player, obstacles)

\* a scene as constructed, before any frame or press
AtScene(obs) == hist.op = "scene" /\ obstacles = obs /\ player = AtRest

\* C12 (as claimed): with the single obstacle x = 0, width 50, height 80 and
\* the player at rest at x = 74 the overlap test finds a collision, and the
\* tick sets status to over and leaves the score alone
C12_BehindCollides ==
    /\ [](AtScene(Behind) => hit(State))
    /\ [][(AtScene(Behind) /\ hist'.op = "frame") =>
            (statusRef' = "over" /\ scoreRef' = scoreRef)]_vars

\* C12 (amended): that obstacle's right edge, 50, is left of the hitbox
\* (80 .. 110) and of player.x: the overlap test finds no collision, and the
\* tick leaves status running, marks the obstacle passed and adds 1 to the
\* score.  The same obstacle at x = 40 (right edge 90) is a collision: the
\* tick sets status to over and leaves the score alone.
C12_BehindIsPassed ==
    /\ [](AtScene(Behind) => ~hit(State))
    /\ [](AtScene(Under) => hit(State))
    /\ [][/\ (AtScene(Behind) /\ hist'.op = "frame") =>
               /\ statusRef' = "running"
               /\ scoreRef' = scoreRef + 1
               /\ obstacles'[1].passed
          /\ (AtScene(Under) /\ hist'.op = "frame") =>
               /\ statusRef' = "over"
               /\ scoreRef' = scoreRef
               /\ ~obstacles'[1].passed
         ]_vars

\* C12 witness: the tick has run on the obstacle at x = 0: it is passed and
\* the run goes on
C12_BehindTicked ==
    /\ hist.op = "frame"
    /\ hist.ticks = 1
    /\ statusRef = "running"
    /\ scoreRef = 1
    /\ Len(obstacles) = 1
    /\ obstacles[1] = [Behind[1] EXCEPT !.passed = TRUE, !.x = obstacles[1].x]
    /\ obstacles[1].x < 0

\* C13: prepareGame applied to a state with status over gives score 0,
\* status ready, no obstacles, speed 190, spawn timer 1 s, the player at
\* rest, and best and its stored value as they were; a gesture handled in
\* over begins with that reset.
C13_ResetFromOver ==
    /\ [](statusRef = "over" =>
            LET r == prepareGame(State)
            IN  /\ r.scoreRef = 0
                /\ r.statusRef = "ready"
                /\ r.obstacles = <<>>
                /\ r.speed = INITIAL_SPEED
                /\ r.spawnTimer = INITIAL_SPAWN_TIMER * 1000 * 1000
                /\ r.player = AtRest
                /\ r.bestRef = bestRef
                /\ r.storage = storage)
    /\ [][(statusRef = "over" /\ hist'.op = "input") =>
            /\ hist'.statuses # <<>>
            /\ hist'.statuses[1] = "ready"
            /\ bestRef' = bestRef
            /\ storage' = storage
         ]_vars

\* C13 witness: the reset has run on a game that ended at the speed cap with
\* a best score stored
C13_ResetAtCap ==
    /\ hist.op = "input"
    /\ hist.statuses # <<>>
    /\ hist.statuses[1] = "ready"
    /\ obstacles = <<>>
    /\ speed = INITIAL_SPEED
    /\ bestRef * SPEED_STEP > MAX_SPEED - INITIAL_SPEED
    /\ storage = NumberToString(bestRef)

\* C14: in a running game without obstacles, whenever the player is in the
\* air, ticks of positive delta up to 35 ms lead to the player grounded with
\* vy = 0 and y = groundY - PLAYER_SIZE.
C14_JumpLands == (statusRef = "running" /\ ~player.onGround) ~> (player = AtRest)

\* C14 witness: a tick has landed the player
C14_Landed == hist.op = "landing" /\ player = AtRest

\* C15 (as claimed): the player is never below the resting y, and grounded
\* is true exactly when y is the resting y
C15_GroundedIffResting ==
    player.y <= restY /\ (player.onGround <=> player.y = restY)

\* C15 (amended): the player is never below the resting y; grounded implies
\* that y is the resting y and vy is 0; the player is at the resting y and
\* not grounded only with the jump velocity, between a jump and the next
\* tick; and the player a tick returns is grounded exactly when its y is the
\* resting y.
C15_GroundedImpliesResting ==
    /\ player.y <= restY
    /\ player.onGround => (player.y = restY /\ player.vy = 0)
    /\ (player.y = restY /\ ~player.onGround) => player.vy = JUMP_VELOCITY * VEL
    /\ \A delta \in {-5, 0} \cup FlightDeltas :
          PhysicsStep(player, delta).onGround
              <=> PhysicsStep(player, delta).y = restY

\* C15 witness: a press in a running game has just made the player jump
C15_JustJumped ==
    /\ hist.op = "input"
    /\ statusRef = "running"
    /\ hist.statuses = <<>>
    /\ player = [AtRest EXCEPT !.vy = JUMP_VELOCITY * VEL, !.onGround = FALSE]

\* ticks from now before which the single press of a try may come
MaxPress == 320

\* One tick of delta ms of a try, with the press before it when k = 0; a
\* try is over, and the tick does nothing, when the run has ended or the
\* obstacles of the scene have been passed.
Try1(s, k, delta) ==
    IF s.statusRef # "running" \/ ~SceneAhead(s) THEN s
    ELSE LET pressed == IF k = 0 THEN jump(s) ELSE s
             ticked == updateGame(pressed, delta,
                                  CHOOSE rnd \in SmallestDraws : TRUE)
         IN  [ticked EXCEPT !.hist = s.hist]

\* 2, 4, 8 and 16 ticks of a try
Try2(s, k, delta) == LET h == Try1(s, k, delta) IN Try1(h, k - 1, delta)

Try4(s, k, delta) == LET h == Try2(s, k, delta) IN Try2(h, k - 2, delta)

Try8(s, k, delta) == LET h == Try4(s, k, delta) IN Try4(h, k - 4, delta)

Try16(s, k, delta) == LET h == Try8(s, k, delta) IN Try8(h, k - 8, delta)

RECURSIVE Clears(_, _, _)
\* The run from s with ticks of delta ms and one press, before the k-th
\* tick from now: TRUE when the obstacles of the scene get passed with the
\* run still going, FALSE when the run ends first.
Clears(s, k, delta) ==
    IF s.statusRef # "running" THEN FALSE
    ELSE IF ~SceneAhead(s) THEN TRUE
    ELSE Clears(Try16(s, k, delta), k - 16, delta)

CanClear(s) ==
    \E delta \in FlightDeltas, k \in 0..MaxPress : Clears(s, k, delta)

\* C16 (as claimed): for the smallest and for the largest obstacle the
\* spawner creates, at speed 190 and at speed 360, some timing of one
\* grounded jump gets the obstacle passed without the run ending
C16_EverySpawnCanBeCleared ==
    \A r \in {0, 999} : AtScene(Spawned(r)) => CanClear(State)

\* what a run simulates
simulated == <<player, obstacles, scoreRef, speed, spawnTimer>>

\* the step resets: prepareGame has run in it, or the page was loaded again
Resets == hist'.op = "mount" \/ \E i \in 1..Len(hist'.statuses) :
                                    hist'.statuses[i] = "ready"

\* while status is ready or over jump() returns the state as it is, loop()
\* changes lastTime alone, and a step that does not reset leaves the
\* simulated state as it is
FrozenOutsideRun ==
    /\ [](statusRef # "running" =>
            /\ jump(State) = State
            /\ \A time \in FrameGaps, rnd \in RandomDraws :
                  loop(State, time, rnd) = [State EXCEPT !.lastTime = time])
    /\ [][(statusRef # "running" /\ ~Resets) => UNCHANGED simulated]_vars

\* C17 (as claimed): the simulated state is frozen while status is ready or
\* over, and a step changes it only by running a tick in a running game or
\* by resetting
C17_OnlyTicksAndResets ==
    /\ FrozenOutsideRun
    /\ [][simulated' # simulated =>
            (statusRef = "running" /\ hist'.ticks >= 1) \/ Resets]_vars

\* C17 (amended): the simulated state is frozen while status is ready or
\* over; a step changes it only by running a tick in a running game, by
\* resetting, or by a jump taken in a running game, which changes vy and
\* grounded and nothing else.
C17_OnlyTicksJumpsAndResets ==
    /\ FrozenOutsideRun
    /\ [][simulated' # simulated =>
            \/ statusRef = "running" /\ hist'.ticks >= 1
            \/ Resets
            \/ /\ statusRef = "running" /\ hist'.op = "input"
               /\ player.onGround
               /\ player' = [player EXCEPT !.vy = JUMP_VELOCITY * VEL,
                                           !.onGround = FALSE]
               /\ UNCHANGED <<obstacles, scoreRef, speed, spawnTimer>>
         ]_vars

\* C17 witness: a frame has run the loop callback left pending by the tick
\* that ended the run, and the obstacles are where that tick left them
C17_StaleLoopRan ==
    /\ hist.op = "frame"
    /\ hist.ticks = 0
    /\ statusRef = "over"
    /\ obstacles # <<>>
    /\ LoopsPending = 0

\* the obstacles, by index after the step, that were not marked passed
\* before it and have their right edge left of player.x after it
Crossed ==
    {j \in 1..Len(obstacles') :
        /\ obstacles'[j].x + obstacles'[j].width < player'.x
        /\ \E i \in 1..Len(obstacles) :
              obstacles[i].id = obstacles'[j].id /\ ~obstacles[i].passed}

\* C18: a frame whose tick takes an obstacle's right edge past player.x and
\* ends the run leaves status over, that obstacle marked passed and the
\* score raised by one for each such obstacle, with best, and the number
\* read back from its stored string, at least that score.
C18_ScoreKeptWhenHit ==
    [][(/\ hist'.op = "frame"
        /\ statusRef = "running" /\ statusRef' = "over"
        /\ Crossed # {}) =>
          /\ \A j \in Crossed : obstacles'[j].passed
          /\ scoreRef' = scoreRef + Cardinality(Crossed)
          /\ bestRef' >= scoreRef'
          /\ LoadBest(storage') >= scoreRef'
      ]_vars

\* C18 witness: one tick has scored the first obstacle of the pair and
\* ended the run on the second
C18_ScoredAndHit ==
    /\ hist.op = "frame"
    /\ hist.ticks = 1
    /\ statusRef = "over"
    /\ Len(obstacles) = 2
    /\ obstacles[1].passed
    /\ obstacles[1].x + obstacles[1].width > (PLAYER_X - 2) * POS
    /\ Intersect(HitBox(player), Box(obstacles[2]))
    /\ scoreRef = 1
    /\ bestRef = 1
    /\ storage = <<"1">>

\* C19: a frame whose ticks all have delta >= 0 moves no obstacle to the
\* right; every obstacle on the list has its right edge beyond -20; and the
\* list never holds more than 6 obstacles.
C19_LeftwardAndCollected ==
    /\ [](\A i \in 1..Len(obstacles) :
            obstacles[i].x + obstacles[i].width > -(OFFSCREEN_MARGIN * POS))
    /\ [](Len(obstacles) <= 6)
    /\ [][(/\ hist'.op = "frame"
            /\ \A k \in 1..Len(hist'.deltas) : hist'.deltas[k] >= 0) =>
              \A i \in 1..Len(obstacles), j \in 1..Len(obstacles') :
                  obstacles[i].id = obstacles'[j].id
                      => obstacles'[j].x <= obstacles[i].x
         ]_vars

\* C19 witness: a passed obstacle has left the list in a run that goes on
C19_Collected ==
    /\ hist.op = "frame"
    /\ statusRef = "running"
    /\ \E id \in passedIds : \A i \in 1..Len(obstacles) : obstacles[i].id # id
    /\ obstacles # <<>>

\* C20: an obstacle marked passed has its right edge left of player.x, so
\* left of the hitbox, and does not intersect the hitbox: in the state after
\* the tick that scores it and in every later state.
C20_PassedNeverHits ==
    \A i \in 1..Len(obstacles) :
        obstacles[i].passed =>
            /\ obstacles[i].x + obstacles[i].width < player.x
            /\ obstacles[i].x + obstacles[i].width < HitBox(player).left
            /\ ~Intersect(HitBox(player), Box(obstacles[i]))

\* C20 witness: the player is back on the ground after a jump while the
\* obstacle it scored is still on the list
C20_LandedBehindPassed ==
    /\ hist.op = "frame"
    /\ statusRef = "running"
    /\ player = AtRest
    /\ scoreRef >= 1
    /\ \E i \in 1..Len(obstacles) :
          /\ obstacles[i].passed
          /\ Box(obstacles[i]).top < HitBox(player).bottom

============================================================================
